---- MODULE Spec2Model ----
(***************************************************************************)
(* Model of the commit-message generator: the script with code analysis    *)
(* and Ollama (src/test-example.test.js, lines 29-729) and its older       *)
(* Llama sibling (src/git-commit-message.js).                              *)
(*                                                                         *)
(* Texts (paths, diff, responses, messages) are strings, handled character *)
(* by character with Len, SubSeq and \o, so that extname, toLowerCase,     *)
(* includes, trim and the regular expressions of the scripts are computed  *)
(* the way the JavaScript computes them.                                   *)
(***************************************************************************)
EXTENDS Integers, Sequences, FiniteSets, TLC

VARIABLES script, files, diff, options, pc, codeAnalysis, categories,
          ollamaStatus, model, response, ollamaMessage, commitMessage,
          usedOllama, requests, shortstat, probe, generation, probeResponse, git

vars == <<script, files, diff, options, pc, codeAnalysis, categories,
          ollamaStatus, model, response, ollamaMessage, commitMessage,
          usedOllama, requests, shortstat, probe, generation, probeResponse, git>>

(***************************************************************************)
(* Strings                                                                 *)
(***************************************************************************)

\* s.charAt(i - 1): the one-character string at position i (1-based)
charAt(s, i) == SubSeq(s, i, i)

\* s.startsWith(p, i - 1)
startsWithAt(s, i, p) ==
  /\ i + Len(p) - 1 <= Len(s)
  /\ SubSeq(s, i, i + Len(p) - 1) = p

\* s.includes(sub)
includes(s, sub) == \E i \in 1..(Len(s) + 1) : startsWithAt(s, i, sub)

\* array.includes(x) for an array given as a sequence
arrayIncludes(arr, x) == \E i \in 1..Len(arr) : arr[i] = x

UpperLetters == "ABCDEFGHIJKLMNOPQRSTUVWXYZ"
LowerLetters == "abcdefghijklmnopqrstuvwxyz"
Digits == "0123456789"

\* position of the character c in the alphabet string abc, 0 when absent
posIn(abc, c) ==
  IF \E i \in 1..Len(abc) : charAt(abc, i) = c
  THEN CHOOSE i \in 1..Len(abc) : charAt(abc, i) = c
  ELSE 0

\* the characters of the alphabet string abc
charsOf(abc) == {charAt(abc, i) : i \in 1..Len(abc)}

\* the lower-case letter of each upper-case letter
UpperToLower == [c \in charsOf(UpperLetters) |-> charAt(LowerLetters, posIn(UpperLetters, c))]

\* the upper-case letter of each lower-case letter
LowerToUpper == [c \in charsOf(LowerLetters) |-> charAt(UpperLetters, posIn(LowerLetters, c))]

lowerChar(c) == IF c \in DOMAIN UpperToLower THEN UpperToLower[c] ELSE c

upperChar(c) == IF c \in DOMAIN LowerToUpper THEN LowerToUpper[c] ELSE c

RECURSIVE toLowerCase(_)
toLowerCase(s) ==
  IF Len(s) = 0 THEN ""
  ELSE lowerChar(charAt(s, 1)) \o toLowerCase(SubSeq(s, 2, Len(s)))

\* array.join(sep)
RECURSIVE join(_, _)
join(arr, sep) ==
  IF Len(arr) = 0 THEN ""
  ELSE IF Len(arr) = 1 THEN arr[1]
  ELSE arr[1] \o sep \o join(Tail(arr), sep)

isWhitespace(c) == c \in {" ", "\t", "\n", "\r", "\f"}

\* s.trim()
RECURSIVE trimStart(_)
trimStart(s) ==
  IF Len(s) > 0 /\ isWhitespace(charAt(s, 1)) THEN trimStart(SubSeq(s, 2, Len(s))) ELSE s

RECURSIVE trimEnd(_)
trimEnd(s) ==
  IF Len(s) > 0 /\ isWhitespace(charAt(s, Len(s))) THEN trimEnd(SubSeq(s, 1, Len(s) - 1)) ELSE s

trim(s) == trimEnd(trimStart(s))

\* s.split('\n')[0]
firstLine(s) ==
  IF \E i \in 1..Len(s) : charAt(s, i) = "\n"
  THEN SubSeq(s, 1, (CHOOSE i \in 1..Len(s) :
                       /\ charAt(s, i) = "\n"
                       /\ \A j \in 1..(i - 1) : charAt(s, j) # "\n") - 1)
  ELSE s

\* s.lastIndexOf(c) + 1, 0 when absent
lastIndexOf(s, c) ==
  IF \E i \in 1..Len(s) : charAt(s, i) = c
  THEN CHOOSE i \in 1..Len(s) :
         /\ charAt(s, i) = c
         /\ \A j \in (i + 1)..Len(s) : charAt(s, j) # c
  ELSE 0

(***************************************************************************)
(* Regular expressions, as the JavaScript engine matches them: a pattern   *)
(* is a sequence of atoms, matched left to right with backtracking in      *)
(* priority order (alternatives in declaration order, repetitions greedy). *)
(***************************************************************************)

Lit(s)     == [t |-> "lit",  s |-> s,   min |-> 0, alts |-> <<>>]
Star(cls)  == [t |-> "rep",  s |-> cls, min |-> 0, alts |-> <<>>]
Plus(cls)  == [t |-> "rep",  s |-> cls, min |-> 1, alts |-> <<>>]
One(cls)   == [t |-> "one",  s |-> cls, min |-> 1, alts |-> <<>>]
Alt(alts)  == [t |-> "alt",  s |-> "",  min |-> 0, alts |-> alts]
Opt(body)  == Alt(<<body, <<>>>>)
Mark       == [t |-> "mark", s |-> "",  min |-> 0, alts |-> <<>>]
Bos        == [t |-> "bos",  s |-> "",  min |-> 0, alts |-> <<>>]
Eos        == [t |-> "eos",  s |-> "",  min |-> 0, alts |-> <<>>]
\* a group of alternative literal words: (?:a|b|c)
Words(ws)  == Alt([i \in 1..Len(ws) |-> <<Lit(ws[i])>>])

\* \\w and \\d
WordChars == charsOf(LowerLetters) \cup charsOf(UpperLetters) \cup charsOf(Digits) \cup {"_"}
DigitChars == charsOf(Digits)

\* character classes used by the scripts' expressions
inClass(c, cls) ==
  CASE cls = "."     -> c \notin {"\n", "\r"}
    [] cls = "s"     -> isWhitespace(c)
    [] cls = "w"     -> c \in WordChars
    [] cls = "d"     -> c \in DigitChars
    [] cls = "[-+]"  -> c \in {"-", "+"}
    [] cls = "quote" -> c \in {"\"", "'"}
    [] cls = "^quote" -> c \notin {"\"", "'"}
    [] cls = "^)"    -> c # ")"
    [] cls = "^dq"   -> c # "\""
    [] cls = "^,}"   -> c \notin {",", "}"}
    [] cls = "Ll"    -> c \in {"L", "l"}
    [] cls = "\\n"   -> c = "\n"
    [] cls = "("     -> c = "("

NoMatch == <<>>

\* the least element of a non-empty set of positions
leastOf(ps) == CHOOSE p \in ps : \A q \in ps : p <= q

\* the greatest element of a non-empty set of lengths
greatestOf(ls) == CHOOSE l \in ls : \A k \in ls : k <= l

\* number of consecutive characters of class cls starting at position i
runLength(s, i, cls) ==
  leastOf({j \in i..(Len(s) + 1) : j = Len(s) + 1 \/ ~inClass(charAt(s, j), cls)}) - i

RECURSIVE matchAt(_, _, _, _)
RECURSIVE repTry(_, _, _, _, _, _)
RECURSIVE altTry(_, _, _, _, _, _)

\* a capture mark at position i in front of the match r of the rest
marked(i, r) == IF r = NoMatch THEN NoMatch ELSE <<i>> \o r

\* the first alternative's match r when there is one, else the next ones'
orElse(r, next) == IF r # NoMatch THEN r ELSE next

\* a literal at position i; ci = the i flag (ignore case)
litAt(s, i, lit, ci) ==
  /\ i + Len(lit) - 1 <= Len(s)
  /\ IF ci THEN toLowerCase(SubSeq(s, i, i + Len(lit) - 1)) = toLowerCase(lit)
     ELSE SubSeq(s, i, i + Len(lit) - 1) = lit

RECURSIVE matchAtom(_, _, _, _, _)

\* Match atoms at position i of s.
\* Result: the positions of the marks met, then the end position; NoMatch on failure.
matchAt(s, i, atoms, ci) ==
  IF Len(atoms) = 0 THEN <<i>> ELSE matchAtom(s, i, atoms[1], Tail(atoms), ci)

\* the atom a, then the atoms rest
matchAtom(s, i, a, rest, ci) ==
  CASE a.t = "lit" -> IF litAt(s, i, a.s, ci) THEN matchAt(s, i + Len(a.s), rest, ci) ELSE NoMatch
    [] a.t = "one" ->
         IF i <= Len(s) /\ inClass(charAt(s, i), a.s) THEN matchAt(s, i + 1, rest, ci) ELSE NoMatch
    [] a.t = "rep" -> repTry(s, i, runLength(s, i, a.s), a.min, rest, ci)
    [] a.t = "alt" -> altTry(s, i, a.alts, 1, rest, ci)
    [] a.t = "mark" -> marked(i, matchAt(s, i, rest, ci))
    [] a.t = "bos" -> IF i = 1 THEN matchAt(s, i, rest, ci) ELSE NoMatch
    [] a.t = "eos" -> IF i = Len(s) + 1 THEN matchAt(s, i, rest, ci) ELSE NoMatch

\* the match of rest after the longest of the run lengths lens, if any
afterLongest(s, i, lens, rest, ci) ==
  IF lens = {} THEN NoMatch ELSE matchAt(s, i + greatestOf(lens), rest, ci)

\* greedy repetition: the longest run of at most n characters after which the
\* rest matches
repTry(s, i, n, min, rest, ci) ==
  afterLongest(s, i, {k \in min..n : matchAt(s, i + k, rest, ci) # NoMatch}, rest, ci)

\* alternatives in declaration order
altTry(s, i, alts, k, rest, ci) ==
  IF k > Len(alts) THEN NoMatch
  ELSE orElse(matchAt(s, i, alts[k] \o rest, ci), altTry(s, i, alts, k + 1, rest, ci))

\* a regular expression is a sequence of top-level alternatives (a|b|c)
RECURSIVE matchAny(_, _, _, _, _)
matchAny(s, i, re, k, ci) ==
  IF k > Len(re) THEN NoMatch
  ELSE orElse(matchAt(s, i, re[k], ci), matchAny(s, i, re, k + 1, ci))

\* the match at the leftmost of the start positions starts, if any
atLeftmost(s, starts, re, ci) ==
  IF starts = {} THEN NoMatch
  ELSE <<leastOf(starts)>> \o matchAny(s, leastOf(starts), re, 1, ci)

\* RegExp.prototype.exec from position from: <<start, marks..., end>> of the
\* leftmost match, NoMatch when there is none
exec(s, from, re, ci) ==
  atLeftmost(s, {f \in from..(Len(s) + 1) : matchAny(s, f, re, 1, ci) # NoMatch}, re, ci)

\* RegExp.prototype.test
test(re, s) == \E f \in 1..(Len(s) + 1) : matchAny(s, f, re, 1, FALSE) # NoMatch

\* String.prototype.match with the g flag: the matched texts, in order
\* (the empty sequence stands for null)
RECURSIVE matchAllFrom(_, _, _)

\* the text of the match r, then the matches after it
matchAllNext(s, r, re) ==
  IF r = NoMatch THEN <<>>
  ELSE <<SubSeq(s, r[1], r[Len(r)] - 1)>>
         \o matchAllFrom(s, IF r[Len(r)] = r[1] THEN r[Len(r)] + 1 ELSE r[Len(r)], re)

matchAllFrom(s, from, re) == matchAllNext(s, exec(s, from, re, FALSE), re)

matchAll(s, re) == matchAllFrom(s, 1, re)

\* s with the match r replaced by repl
spliced(s, r, repl) ==
  IF r = NoMatch THEN s
  ELSE SubSeq(s, 1, r[1] - 1) \o repl \o SubSeq(s, r[Len(r)], Len(s))

\* String.prototype.replace(re, repl) without the g flag
replaceFirst(s, re, repl, ci) == spliced(s, exec(s, 1, re, ci), repl)

\* String.prototype.replace(re, repl) with the g flag
RECURSIVE replaceAllFrom(_, _, _, _)

\* the text from position from with the match r and the matches after it replaced
replaceAllNext(s, from, r, re, repl) ==
  IF r = NoMatch THEN SubSeq(s, from, Len(s))
  ELSE SubSeq(s, from, r[1] - 1) \o repl \o
       (IF r[Len(r)] = r[1]
        THEN (IF r[1] <= Len(s)
              THEN charAt(s, r[1]) \o replaceAllFrom(s, r[1] + 1, re, repl)
              ELSE "")
        ELSE replaceAllFrom(s, r[Len(r)], re, repl))

replaceAllFrom(s, from, re, repl) ==
  replaceAllNext(s, from, exec(s, from, re, FALSE), re, repl)

replaceAll(s, re, repl) == replaceAllFrom(s, 1, re, repl)

(***************************************************************************)
(* Values                                                                  *)
(***************************************************************************)

\* null / undefined
Null == "<null>"

\* parseInt of a string of digits
RECURSIVE parseInt(_)
parseInt(s) ==
  IF Len(s) = 0 THEN 0
  ELSE 10 * parseInt(SubSeq(s, 1, Len(s) - 1)) + (posIn(Digits, charAt(s, Len(s))) - 1)

(***************************************************************************)
(* path.basename, path.extname (posix)                                     *)
(***************************************************************************)

basename(file) == SubSeq(file, lastIndexOf(file, "/") + 1, Len(file))

extname(file) ==
  LET base == basename(file)
      dot == lastIndexOf(base, ".")
  IN IF dot = 0 \/ dot = 1 THEN ""
     ELSE IF base = ".." THEN ""
     ELSE SubSeq(base, dot, Len(base))

(***************************************************************************)
(* categorizeFiles                                                         *)
(***************************************************************************)

CodeExts   == <<".js", ".jsx", ".ts", ".tsx", ".py", ".java", ".cpp", ".c", ".cs", ".php", ".rb", ".go", ".rs">>
ConfigExts == <<".json", ".yml", ".yaml", ".toml", ".ini", ".conf", ".env", ".lock", ".md">>
DocExts    == <<".md", ".txt", ".rst", ".adoc">>
StyleExts  == <<".css", ".scss", ".sass", ".less", ".styl", ".vue", ".svelte">>
ScriptExts == <<".sh", ".bash", ".zsh", ".fish", ".py", ".pl">>

BucketNames == <<"code", "config", "docs", "tests", "styles", "scripts", "other">>

emptyCategories == [b \in {BucketNames[i] : i \in 1..Len(BucketNames)} |-> <<>>]

\* categories.<bucket>.push(file)
push(cats, bucket, file) == [cats EXCEPT ![bucket] = Append(@, file)]

\* the if / else-if chain of the forEach callback: the first matching branch
categoryOf(file) ==
  LET ext == toLowerCase(extname(file))
      base == toLowerCase(basename(file))
  IN IF arrayIncludes(CodeExts, ext) THEN "code"
     ELSE IF \/ arrayIncludes(ConfigExts, ext)
             \/ includes(base, "package") \/ includes(base, "config") \/ includes(base, ".git")
          THEN "config"
     ELSE IF \/ arrayIncludes(DocExts, ext)
             \/ includes(base, "readme") \/ includes(base, "doc") \/ includes(base, "changelog")
          THEN "docs"
     ELSE IF \/ includes(base, "test") \/ includes(base, "spec")
             \/ ext = ".test.js" \/ ext = ".spec.js"
          THEN "tests"
     ELSE IF arrayIncludes(StyleExts, ext) THEN "styles"
     ELSE IF arrayIncludes(ScriptExts, ext) THEN "scripts"
     ELSE "other"

\* the script branch written as an if of its own instead of an else-if:
\* an extension of both lists lands in two buckets
categorizeFileFallThrough(cats, file) ==
  LET ext == toLowerCase(extname(file))
      c == push(cats, categoryOf(file), file)
  IN IF categoryOf(file) # "scripts" /\ arrayIncludes(ScriptExts, ext)
     THEN push(c, "scripts", file) ELSE c

\* the forEach callback: the file is pushed to the bucket of its branch
categorizeFile(cats, file) == push(cats, categoryOf(file), file)

RECURSIVE categorizeFrom(_, _, _)
categorizeFrom(cats, fs, i) ==
  IF i > Len(fs) THEN cats
  ELSE categorizeFrom(categorizeFile(cats, fs[i]), fs, i + 1)

categorizeFiles(fs) == categorizeFrom(emptyCategories, fs, 1)

(***************************************************************************)
(* analyzeCodeChanges                                                      *)
(***************************************************************************)

FunctionExts == <<".js", ".jsx", ".ts", ".tsx", ".py", ".java", ".cpp", ".c">>
ImportExts   == <<".js", ".jsx", ".ts", ".tsx", ".py">>
ConfigAnalysisExts == <<".json", ".yml", ".yaml", ".toml", ".env">>
TypeExts     == <<".ts", ".tsx">>

\* [-+].*function\s+(\w+)\s*\(|[-+].*const\s+(\w+)\s*=\s*(?:\([^)]*\)\s*=>|async\s+\([^)]*\)\s*=>)
\*   |[-+].*class\s+(\w+)|[-+].*def\s+(\w+)\s*\(      (flag g)
functionPattern ==
  << <<One("[-+]"), Star("."), Lit("function"), Plus("s"), Plus("w"), Star("s"), Lit("(")>>,
     <<One("[-+]"), Star("."), Lit("const"), Plus("s"), Plus("w"), Star("s"), Lit("="), Star("s"),
       Alt(<< <<Lit("("), Star("^)"), Lit(")"), Star("s"), Lit("=>")>>,
              <<Lit("async"), Plus("s"), Lit("("), Star("^)"), Lit(")"), Star("s"), Lit("=>")>> >>)>>,
     <<One("[-+]"), Star("."), Lit("class"), Plus("s"), Plus("w")>>,
     <<One("[-+]"), Star("."), Lit("def"), Plus("s"), Plus("w"), Star("s"), Lit("(")>> >>

\* (?:function|const|class|def)\s+(\w+)
funcMatchPattern ==
  << <<Words(<<"function", "const", "class", "def">>), Plus("s"), Mark, Plus("w"), Mark>> >>

\* [-+].*(?:import|require|from)\s+['"][^'"]+['"]|[-+].*import\s+.*from\s+['"][^'"]+['"]   (flag g)
importPattern ==
  << <<One("[-+]"), Star("."), Words(<<"import", "require", "from">>), Plus("s"),
       One("quote"), Plus("^quote"), One("quote")>>,
     <<One("[-+]"), Star("."), Lit("import"), Plus("s"), Star("."), Lit("from"), Plus("s"),
       One("quote"), Plus("^quote"), One("quote")>> >>

\* \+.*(?:test|it|describe|expect)\s*\(   (flag g)
testPattern ==
  << <<Lit("+"), Star("."), Words(<<"test", "it", "describe", "expect">>), Star("s"), Lit("(")>> >>

\* \+.*"[^"]+"\s*:\s*[^,}]+   (flag g)
configPattern ==
  << <<Lit("+"), Star("."), Lit("\""), Plus("^dq"), Lit("\""), Star("s"), Lit(":"), Star("s"), Plus("^,}")>> >>

\* \+.*(?:interface|type|enum)\s+\w+   (flag g)
typePattern ==
  << <<Lit("+"), Star("."), Words(<<"interface", "type", "enum">>), Plus("s"), Plus("w")>> >>

\* m.replace(/^\+\s*/, '')
stripPlus(m) == replaceFirst(m, << <<Bos, Lit("+"), Star("s")>> >>, "", FALSE)

\* arr.map(f) for the string functions used below
RECURSIVE mapStripPlus(_)
mapStripPlus(arr) ==
  IF Len(arr) = 0 THEN <<>> ELSE <<stripPlus(Head(arr))>> \o mapStripPlus(Tail(arr))

\* m.substring(0, 50)
substring50(m) == SubSeq(m, 1, IF Len(m) < 50 THEN Len(m) ELSE 50)

RECURSIVE mapConfig(_)
mapConfig(arr) ==
  IF Len(arr) = 0 THEN <<>> ELSE <<substring50(stripPlus(Head(arr)))>> \o mapConfig(Tail(arr))

\* the name captured by the match r of funcMatchPattern in m, pushed unless
\* there is no match or the name is already there
pushFunction(functions, m, r) ==
  IF r # NoMatch /\ ~arrayIncludes(functions, SubSeq(m, r[2], r[3] - 1))
  THEN Append(functions, SubSeq(m, r[2], r[3] - 1))
  ELSE functions

\* functionPattern.forEach(match => ...): push the declared name unless already there
RECURSIVE addFunctions(_, _)
addFunctions(functions, matches) ==
  IF Len(matches) = 0 THEN functions
  ELSE addFunctions(pushFunction(functions, Head(matches),
                                 exec(Head(matches), 1, funcMatchPattern, FALSE)),
                    Tail(matches))

\* importPattern.forEach(match => ...): added lines only
RECURSIVE addImports(_, _)
addImports(imports, matches) ==
  IF Len(matches) = 0 THEN imports
  ELSE addImports(IF startsWithAt(Head(matches), 1, "+")
                  THEN Append(imports, stripPlus(Head(matches))) ELSE imports,
                  Tail(matches))

emptyAnalysis ==
  [patterns |-> <<>>, functions |-> <<>>, imports |-> <<>>, tests |-> <<>>,
   configs |-> <<>>, types |-> <<>>, summary |-> ""]

\* the evidence a file of extension ext and base name base contributes
analyzeNamed(analysis, ext, base, d) ==
  [analysis EXCEPT
     !.functions = IF arrayIncludes(FunctionExts, ext)
                   THEN addFunctions(@, matchAll(d, functionPattern)) ELSE @,
     !.imports = IF arrayIncludes(ImportExts, ext)
                 THEN addImports(@, matchAll(d, importPattern)) ELSE @,
     !.tests = IF includes(base, "test") \/ includes(base, "spec")
               THEN @ \o mapStripPlus(matchAll(d, testPattern)) ELSE @,
     !.configs = IF arrayIncludes(ConfigAnalysisExts, ext) \/ includes(base, "config")
                 THEN @ \o mapConfig(matchAll(d, configPattern)) ELSE @,
     !.types = IF arrayIncludes(TypeExts, ext)
               THEN @ \o mapStripPlus(matchAll(d, typePattern)) ELSE @]

\* the body of the files.forEach callback
analyzeFile(analysis, file, d) ==
  analyzeNamed(analysis, toLowerCase(extname(file)), toLowerCase(basename(file)), d)

RECURSIVE analyzeFilesFrom(_, _, _, _)
analyzeFilesFrom(analysis, fs, d, i) ==
  IF i > Len(fs) THEN analysis
  ELSE analyzeFilesFrom(analyzeFile(analysis, fs[i], d), fs, d, i + 1)

\* \+.*A|B|C : an added line holding A, or B or C anywhere
signature(sign, first, others) ==
  << <<Lit(sign), Star("."), Lit(first)>> >> \o [i \in 1..Len(others) |-> <<Lit(others[i])>>]

\* the catalogue of common patterns, in declaration order
patternCatalogue ==
  << [pattern |-> signature("+", "console.log", <<"console.debug", "console.info">>),
      type |-> "debugging", action |-> "Add debug logging"],
     [pattern |-> signature("+", "TODO", <<"FIXME", "HACK">>),
      type |-> "todos", action |-> "Add TODO comments"],
     [pattern |-> << <<Lit("+"), Star("."), Lit("export"), Plus("s"),
                       Opt(<<Lit("default"), Plus("s")>>),
                       Words(<<"class", "function", "const", "var", "let">>)>> >>,
      type |-> "exports", action |-> "Add exports"],
     [pattern |-> signature("-", "console.log", <<"console.debug", "console.info">>),
      type |-> "debugging", action |-> "Remove debug logging"],
     [pattern |-> signature("+", "eslint", <<"prettier", "stylelint">>),
      type |-> "linting", action |-> "Add linting rules"],
     [pattern |-> signature("+", "test", <<"spec", "describe", "it", "expect">>),
      type |-> "tests", action |-> "Add test cases"],
     [pattern |-> signature("-", "test", <<"spec", "describe", "it", "expect">>),
      type |-> "tests", action |-> "Remove test cases"],
     [pattern |-> << <<Lit("+"), Star("."), Lit("catch")>>, <<Lit("try")>>,
                     <<Lit("throw"), Plus("s"), Lit("new"), Plus("s"), Lit("Error")>> >>,
      type |-> "error-handling", action |-> "Add error handling"],
     [pattern |-> signature("+", "async", <<"await", "Promise", ".then(", ".catch(">>),
      type |-> "async", action |-> "Add async functionality"],
     [pattern |-> signature("+", "fetch", <<"axios", "XMLHttpRequest", "http.">>),
      type |-> "api", action |-> "Add API calls"],
     [pattern |-> signature("+", "useState", <<"useEffect", "useContext", "useReducer">>),
      type |-> "react-hooks", action |-> "Add React hooks"],
     [pattern |-> << <<Lit("+"), Star("."), Lit("Component")>>,
                     <<Lit("extends"), Star("."), Lit("Component")>>,
                     <<Lit("React.Component")>> >>,
      type |-> "react-components", action |-> "Add React components"],
     [pattern |-> signature("+", "router", <<"route", "/api/">>),
      type |-> "routing", action |-> "Add routing"],
     [pattern |-> signature("+", "mongoose", <<"sequelize", "prisma", "sql">>),
      type |-> "database", action |-> "Add database operations"],
     [pattern |-> signature("+", "auth", <<"jwt", "bcrypt", "passport">>),
      type |-> "authentication", action |-> "Add authentication"],
     [pattern |-> signature("+", "validation", <<"validate", "joi", "yup">>),
      type |-> "validation", action |-> "Add validation"] >>

\* analysis.patterns.find(p => p.type === type) is defined
hasType(patterns, type) == \E i \in 1..Len(patterns) : patterns[i].type = type

\* unshift instead of push: the latest match becomes the primary pattern
detectPatternUnshift(patterns, sig, d) ==
  IF test(sig.pattern, d) /\ ~hasType(patterns, sig.type)
  THEN <<[type |-> sig.type, action |-> sig.action]>> \o patterns
  ELSE patterns

\* the find() guard left out: every matching signature is pushed
detectPatternNoGuard(patterns, sig, d) ==
  IF test(sig.pattern, d)
  THEN Append(patterns, [type |-> sig.type, action |-> sig.action])
  ELSE patterns

\* a later signature of a type replaces the entry of that type
detectPatternLastWins(patterns, sig, d) ==
  IF test(sig.pattern, d)
  THEN Append(SelectSeq(patterns, LAMBDA p : p.type # sig.type),
              [type |-> sig.type, action |-> sig.action])
  ELSE patterns

\* the body of the patterns.forEach callback
detectPattern(patterns, sig, d) ==
  IF test(sig.pattern, d) /\ ~hasType(patterns, sig.type)
  THEN Append(patterns, [type |-> sig.type, action |-> sig.action])
  ELSE patterns

RECURSIVE detectPatternsFrom(_, _, _, _)
detectPatternsFrom(patterns, catalogue, d, i) ==
  IF i > Len(catalogue) THEN patterns
  ELSE detectPatternsFrom(detectPattern(patterns, catalogue[i], d), catalogue, d, i + 1)

detectPatterns(d) == detectPatternsFrom(<<>>, patternCatalogue, d, 1)

\* `${n} ${noun}${n > 1 ? 's' : ''}`
counted(n, noun) == ToString(n) \o " " \o noun \o (IF n > 1 THEN "s" ELSE "")

summaryOf(a) ==
  LET parts == (IF Len(a.functions) > 0 THEN <<counted(Len(a.functions), "function")>> ELSE <<>>)
            \o (IF Len(a.imports) > 0 THEN <<counted(Len(a.imports), "import")>> ELSE <<>>)
            \o (IF Len(a.tests) > 0 THEN <<counted(Len(a.tests), "test")>> ELSE <<>>)
            \o (IF Len(a.configs) > 0 THEN <<"configuration changes">> ELSE <<>>)
            \o (IF Len(a.types) > 0 THEN <<counted(Len(a.types), "type")>> ELSE <<>>)
  IN IF Len(parts) > 0 THEN join(parts, ", ") ELSE "code changes"

\* analysis.summary = ...
withSummary(a) == [a EXCEPT !.summary = summaryOf(a)]

analyzeCodeChanges(fs, d) ==
  withSummary([analyzeFilesFrom(emptyAnalysis, fs, d, 1) EXCEPT !.patterns = detectPatterns(d)])

(***************************************************************************)
(* generateCommitMessage                                                   *)
(***************************************************************************)

\* addCategoryMessage: the clause of one bucket, nothing for an empty bucket
addCategoryMessage(messages, category, categoryName, verb, adjective, opts) ==
  IF Len(category) = 0 THEN messages
  ELSE LET count == Len(category)
           fileList == IF opts.verbose THEN " (" \o join(category, ", ") \o ")" ELSE ""
           adj == IF adjective # "" THEN adjective \o " " ELSE ""
       IN IF count = 1
          THEN Append(messages, verb \o " " \o adj \o categoryName \o fileList)
          ELSE Append(messages, verb \o " " \o ToString(count) \o " " \o categoryName \o fileList)

\* the generic message left out: an empty list of clauses is joined as it is
categoryMessageNoGeneric(cats, opts) ==
  LET m1 == addCategoryMessage(<<>>, cats.code, "code file", "Update", "source", opts)
      m2 == addCategoryMessage(m1, cats.config, "configuration", "Update", "", opts)
      m3 == addCategoryMessage(m2, cats.docs, "documentation", "Update", "", opts)
      m4 == addCategoryMessage(m3, cats.tests, "test", "Update", "", opts)
      m5 == addCategoryMessage(m4, cats.styles, "stylesheet", "Update", "", opts)
      m6 == addCategoryMessage(m5, cats.scripts, "script", "Update", "", opts)
      m7 == addCategoryMessage(m6, cats.other, "file", "Update", "", opts)
  IN join(m7, ", ")

\* the category-based generation (the whole function in git-commit-message.js)
categoryMessage(cats, opts) ==
  LET m1 == addCategoryMessage(<<>>, cats.code, "code file", "Update", "source", opts)
      m2 == addCategoryMessage(m1, cats.config, "configuration", "Update", "", opts)
      m3 == addCategoryMessage(m2, cats.docs, "documentation", "Update", "", opts)
      m4 == addCategoryMessage(m3, cats.tests, "test", "Update", "", opts)
      m5 == addCategoryMessage(m4, cats.styles, "stylesheet", "Update", "", opts)
      m6 == addCategoryMessage(m5, cats.scripts, "script", "Update", "", opts)
      m7 == addCategoryMessage(m6, cats.other, "file", "Update", "", opts)
  IN IF Len(m7) = 0 THEN "Update files" ELSE join(m7, ", ")

\* the pattern branch of generateCommitMessage
patternMessage(cats, a) ==
  LET primaryPattern == a.patterns[1]
      categoryParts ==
           (IF Len(cats.code) > 0 /\ Len(a.functions) > 0
            THEN <<counted(Len(a.functions), "function")>> ELSE <<>>)
        \o (IF Len(cats.tests) > 0 /\ Len(a.tests) > 0
            THEN <<counted(Len(a.tests), "test")>> ELSE <<>>)
        \o (IF Len(a.imports) > 0 THEN <<"new imports">> ELSE <<>>)
        \o (IF Len(a.types) > 0 THEN <<counted(Len(a.types), "type")>> ELSE <<>>)
      action == IF startsWithAt(primaryPattern.action, 1, "Add ") /\ Len(categoryParts) > 0
                THEN replaceFirst(primaryPattern.action, << <<Lit("Add ")>> >>, "", FALSE)
                ELSE primaryPattern.action
  IN IF Len(categoryParts) > 0
     THEN action \o " with " \o join(categoryParts, ", ")
     ELSE action

generateCommitMessage(cats, a, opts) ==
  IF Len(a.patterns) > 0 THEN patternMessage(cats, a) ELSE categoryMessage(cats, opts)

(***************************************************************************)
(* getDetailedCommitMessage                                                *)
(***************************************************************************)

\* (\d+)\s+insertion\(+\),?\s*(\d+)\s+deletion\(-\)?
shortstatPattern ==
  << <<Mark, Plus("d"), Mark, Plus("s"), Lit("insertion"), Plus("("), Lit(")"),
       Opt(<<Lit(",")>>), Star("s"), Mark, Plus("d"), Mark, Plus("s"),
       Lit("deletion"), Lit("(-"), Opt(<<Lit(")")>>)>> >>

\* parseInt(match[k]) of the capture between marks k and k + 1, 0 without a match
capturedCount(summary, match, k) ==
  IF match # NoMatch THEN parseInt(SubSeq(summary, match[k], match[k + 1] - 1)) ELSE 0

\* the verb for the counts of added and deleted lines
verbFor(additions, deletions) ==
  IF additions > 0 /\ deletions = 0 THEN "Add"
  ELSE IF additions = 0 /\ deletions > 0 THEN "Remove"
  ELSE IF additions > deletions * 2 THEN "Enhance"
  ELSE IF deletions > additions * 2 THEN "Simplify"
  ELSE "Update"

\* summary is the trimmed output of git diff --cached --shortstat, Null when git fails
getDetailedCommitMessage(summary) ==
  IF summary = Null THEN "Update"
  ELSE verbFor(capturedCount(summary, exec(summary, 1, shortstatPattern, FALSE), 2),
               capturedCount(summary, exec(summary, 1, shortstatPattern, FALSE), 4))

(***************************************************************************)
(* The remote generator: response cleaning and model selection             *)
(***************************************************************************)

\* the length ceiling of an accepted remote message
MaxMessageLength == 100

\* /^["']+|["']+$/g: every surrounding quote is stripped, not one pair
surroundingQuotesGreedy == << <<Bos, Plus("quote")>>, <<Plus("quote"), Eos>> >>

\* /^["']|["']$/g
surroundingQuotes == << <<Bos, One("quote")>>, <<One("quote"), Eos>> >>
\* /\.$/
trailingPeriod == << <<Lit("."), Eos>> >>
\* /\n+/g
newlines == << <<Plus("\\n")>> >>
\* /^(?:Sure! Here is(?: a potential)? commit message for the changes you described:
\*     |Here's a commit message:|Git commit message:)/i
aiPrefix ==
  << <<Bos, Alt(<< <<Lit("Sure! Here is"), Opt(<<Lit(" a potential")>>),
                     Lit(" commit message for the changes you described:")>>,
                   <<Lit("Here's a commit message:")>>,
                   <<Lit("Git commit message:")>> >>)>> >>
\* /\s+-\s+[Ll]og$/
logArtifact == << <<Plus("s"), Lit("-"), Plus("s"), One("Ll"), Lit("og"), Eos>> >>

\* cleanedMessage of generateCommitMessageWithOllama
cleanedMessageOllama(text) ==
  LET commitMsg == trim(text)
      c1 == replaceAll(commitMsg, surroundingQuotes, "")
      c2 == replaceFirst(c1, trailingPeriod, "", FALSE)
      c3 == replaceAll(c2, newlines, " ")
      c4 == replaceFirst(c3, aiPrefix, "", TRUE)
      c5 == replaceFirst(c4, logArtifact, "", FALSE)
  IN firstLine(trim(c5))

\* cleanedMessage of generateCommitMessageWithLlama
cleanedMessageLlama(text) ==
  LET commitMsg == trim(text)
      c1 == replaceAll(commitMsg, surroundingQuotes, "")
      c2 == replaceFirst(c1, trailingPeriod, "", FALSE)
      c3 == replaceAll(c2, newlines, " ")
  IN firstLine(trim(c3))

cleanedMessage(scr, text) ==
  IF scr = "ollama" THEN cleanedMessageOllama(text) ELSE cleanedMessageLlama(text)

\* <= 100 instead of < 100
suitableInclusive(cleaned) == Len(cleaned) > 0 /\ Len(cleaned) <= MaxMessageLength

\* cleanedMessage.length > 0 && cleanedMessage.length < 100
suitable(cleaned) == Len(cleaned) > 0 /\ Len(cleaned) < MaxMessageLength

\* A response body as JSON.parse sees it: parsed is FALSE when the text is
\* no JSON (or no object); of the parsed object only the response field
\* matters: Null (absent), NotAString (a truthy value that is no string, so
\* that .trim() throws), or a string.
NotAString == "<number>"
GenerateBody(text) == [parsed |-> TRUE, response |-> text]
UnparsableBody == [parsed |-> FALSE, response |-> Null]

\* the 'end' handler of the generation request: the value the promise resolves to
onGenerateEnd(scr, body) ==
  IF ~body.parsed THEN Null
  ELSE IF body.response = Null \/ body.response = "" THEN Null
  ELSE IF body.response = NotAString THEN Null
  ELSE LET cleaned == cleanedMessage(scr, body.response)
       IN IF suitable(cleaned) THEN cleaned ELSE Null

defaultModels == <<"llama2:latest", "gemma3n:latest", "deepseek-r1:latest", "gpt-oss:20b">>

\* defaultModels.find(m => availableModelNames.includes(m)), Null when none
RECURSIVE findDefault(_, _)
findDefault(names, i) ==
  IF i > Len(defaultModels) THEN Null
  ELSE IF arrayIncludes(names, defaultModels[i]) THEN defaultModels[i]
  ELSE findDefault(names, i + 1)

\* the model of the generation request, Null when there is none
selectModel(scr, opts, status) ==
  IF scr = "llama"
  THEN IF opts.ollamaModel # Null THEN opts.ollamaModel ELSE "llama3.2:3b"
  ELSE IF opts.ollamaModel # Null THEN opts.ollamaModel
  ELSE IF findDefault(status.models, 1) # Null THEN findDefault(status.models, 1)
  ELSE IF Len(status.models) > 0 THEN status.models[1]
  ELSE Null

\* the outcome of an expression that throws
Throws == "<throws>"

\* position of the first occurrence of sub in s, 0 when there is none
indexOf(s, sub) ==
  IF includes(s, sub)
  THEN leastOf({i \in 1..(Len(s) + 1) : startsWithAt(s, i, sub)})
  ELSE 0

\* the text of s before the first occurrence of sub (all of s without one)
before(s, sub) ==
  IF includes(s, sub) THEN SubSeq(s, 1, indexOf(s, sub) - 1) ELSE s

\* the text of s after the first occurrence of sub
after(s, sub) == SubSeq(s, indexOf(s, sub) + Len(sub), Len(s))

\* schemes whose URLs must have a host
SpecialSchemes == {"http", "https", "ws", "wss", "ftp"}

allIn(s, chars) == \A i \in 1..Len(s) : charAt(s, i) \in chars

\* a URL scheme: a letter, then letters, digits, "+", "-", "."
isScheme(s) ==
  /\ Len(s) > 0
  /\ charAt(s, 1) \in charsOf(UpperLetters \o LowerLetters)
  /\ allIn(s, charsOf(UpperLetters \o LowerLetters \o Digits \o "+-."))

\* hostname of scheme://host[:port][/path], given the scheme and the
\* authority (host[:port]); the parser fails on an empty host of a special
\* scheme and on a port that is not a number
authorityHostname(scheme, authority) ==
  IF toLowerCase(scheme) \in SpecialSchemes /\ before(authority, ":") = "" THEN Throws
  ELSE IF includes(authority, ":") /\ ~allIn(after(authority, ":"), charsOf(Digits)) THEN Throws
  ELSE toLowerCase(before(authority, ":"))

\* new URL(s).hostname for a text holding "://"
urlHostname(s) ==
  IF ~isScheme(before(s, "://")) THEN Throws
  ELSE authorityHostname(before(s, "://"), before(after(s, "://"), "/"))

\* the hostname of the probe: checkOllamaServer(options.ollamaHost, ...)
\* parses a host holding "://"; checkLlamaServer() is called without arguments
probeHostname(scr, opts) ==
  IF scr = "llama" THEN "localhost"
  ELSE IF opts.ollamaHost = Null \/ opts.ollamaHost = "" THEN urlHostname("http://127.0.0.1")
  ELSE IF includes(opts.ollamaHost, "://") THEN urlHostname(opts.ollamaHost)
  ELSE opts.ollamaHost

\* hostname: options.ollamaHost || 'localhost' of the generation request
generateHostname(opts) ==
  IF opts.ollamaHost = Null \/ opts.ollamaHost = "" THEN "localhost" ELSE opts.ollamaHost

\* the port of the probe: the default of the port parameter stands in for an
\* absent --port; checkLlamaServer() is called without arguments
probePort(scr, opts) ==
  IF scr = "llama" \/ opts.ollamaPort = Null THEN "11434" ELSE opts.ollamaPort

\* port: options.ollamaPort || '11434' of the generation request
generatePort(opts) ==
  IF opts.ollamaPort = Null \/ opts.ollamaPort = "" THEN "11434" ELSE opts.ollamaPort

\* a probe body: parsed as above, hasModels = the object has a models field
ProbeBody(names) == [parsed |-> TRUE, hasModels |-> TRUE, models |-> names]
ProbeBodyNoModels == [parsed |-> TRUE, hasModels |-> FALSE, models |-> <<>>]
UnparsableProbeBody == [parsed |-> FALSE, hasModels |-> FALSE, models |-> <<>>]

\* the probe resolving available whatever the status code
onProbeEndAnyStatus(scr, statusCode, body) ==
  IF scr = "llama" THEN [available |-> TRUE, models |-> <<>>]
  ELSE IF ~body.parsed THEN [available |-> FALSE, models |-> <<>>]
  ELSE [available |-> TRUE,
        models |-> IF body.hasModels THEN body.models ELSE <<>>]

\* the 'end' handler of the probe (checkOllamaServer); checkLlamaServer
\* resolves on the status line alone
onProbeEnd(scr, statusCode, body) ==
  IF scr = "llama" THEN [available |-> statusCode = 200, models |-> <<>>]
  ELSE IF ~body.parsed THEN [available |-> FALSE, models |-> <<>>]
  ELSE [available |-> statusCode = 200,
        models |-> IF body.hasModels THEN body.models ELSE <<>>]

unavailable == [available |-> FALSE, models |-> <<>>]

\* no response to the probe (yet)
NoProbeResponse == [statusCode |-> 0, body |-> UnparsableProbeBody]

\* every character of the message upper-cased instead of the first
RECURSIVE capitalizeWhole(_)
capitalizeWhole(msg) ==
  IF Len(msg) = 0 THEN ""
  ELSE upperChar(charAt(msg, 1)) \o capitalizeWhole(SubSeq(msg, 2, Len(msg)))

\* commitMessage.charAt(0).toUpperCase() + commitMessage.slice(1)
capitalize(msg) == upperChar(charAt(msg, 1)) \o SubSeq(msg, 2, Len(msg))

\* the rule-based fallback of main
ruleBasedMessage(scr, cats, a, opts, summary) ==
  LET subject == IF scr = "ollama" THEN generateCommitMessage(cats, a, opts)
                 ELSE categoryMessage(cats, opts)
  IN IF opts.detailed THEN getDetailedCommitMessage(summary) \o ": " \o subject
     ELSE subject

(***************************************************************************)
(* main, one run: the steps between its suspension points.                 *)
(* probe and generation are the states of the two HTTP requests:           *)
(* "unsent", "pending", then "answered", "error" or "timeout".             *)
(***************************************************************************)

\* execSync('git rev-parse --git-dir'): outside a repository it throws and
\* main ends the process with exit code 1
CheckRepository(inside) ==
  /\ pc = "start"
  /\ pc' = IF inside THEN "staged" ELSE "exit"
  /\ UNCHANGED <<script, files, diff, options, codeAnalysis, categories, ollamaStatus, model,
                 response, ollamaMessage, commitMessage, usedOllama, requests, shortstat,
                 probe, generation, probeResponse, git>>

\* if (!hasStagedChanges()) process.exit(1)
CheckStagedChanges(staged) ==
  /\ pc = "staged"
  /\ pc' = IF staged THEN "listing" ELSE "exit"
  /\ UNCHANGED <<script, files, diff, options, codeAnalysis, categories, ollamaStatus, model,
                 response, ollamaMessage, commitMessage, usedOllama, requests, shortstat,
                 probe, generation, probeResponse, git>>

\* const files = getStagedFiles(): the listing git prints, [] when the
\* command throws
GetStagedFiles(succeeds, listing) ==
  /\ pc = "listing"
  /\ files' = IF succeeds THEN listing ELSE <<>>
  /\ git' = [git EXCEPT !.listing = IF succeeds THEN "ok" ELSE "failed"]
  /\ pc' = "diffing"
  /\ UNCHANGED <<script, diff, options, codeAnalysis, categories, ollamaStatus, model,
                 response, ollamaMessage, commitMessage, usedOllama, requests, shortstat,
                 probe, generation, probeResponse>>

\* const diff = getDetailedDiff(): the diff git prints, '' when the command
\* throws
GetDetailedDiff(succeeds, text) ==
  /\ pc = "diffing"
  /\ diff' = IF succeeds THEN text ELSE ""
  /\ git' = [git EXCEPT !.diffing = IF succeeds THEN "ok" ELSE "failed"]
  /\ pc' = IF script = "ollama" THEN "analyze" ELSE "remote"
  /\ UNCHANGED <<script, files, options, codeAnalysis, categories, ollamaStatus, model,
                 response, ollamaMessage, commitMessage, usedOllama, requests, shortstat,
                 probe, generation, probeResponse>>

\* the analysis run only when remote mode is off
AnalyzeChangesLocalOnly ==
  /\ pc = "analyze"
  /\ codeAnalysis' = IF options.ollama THEN codeAnalysis ELSE analyzeCodeChanges(files, diff)
  /\ pc' = "remote"
  /\ UNCHANGED <<script, files, diff, options, categories, ollamaStatus, model, response,
                 ollamaMessage, commitMessage, usedOllama, requests, shortstat, probe, generation,
                 probeResponse, git>>

\* const codeAnalysis = analyzeCodeChanges(files, diff)  (Ollama script only)
AnalyzeChanges ==
  /\ pc = "analyze"
  /\ codeAnalysis' = analyzeCodeChanges(files, diff)
  /\ pc' = "remote"
  /\ UNCHANGED <<script, files, diff, options, categories, ollamaStatus, model, response,
                 ollamaMessage, commitMessage, usedOllama, requests, shortstat, probe, generation,
                 probeResponse, git>>

\* if (options.ollama) is false
\* the rule-based branch entered without looking at options.ollama
SkipRemoteUnconditionally ==
  /\ pc = "remote"
  /\ pc' = "fallback"
  /\ UNCHANGED <<script, files, diff, options, codeAnalysis, categories, ollamaStatus, model,
                 response, ollamaMessage, commitMessage, usedOllama, requests, shortstat,
                 probe, generation, probeResponse, git>>

SkipRemote ==
  /\ pc = "remote"
  /\ ~options.ollama
  /\ pc' = "fallback"
  /\ UNCHANGED <<script, files, diff, options, codeAnalysis, categories, ollamaStatus, model,
                 response, ollamaMessage, commitMessage, usedOllama, requests, shortstat,
                 probe, generation, probeResponse, git>>

\* new URL(safeHost) throws in the executor of the probe's promise: the promise
\* is rejected, generateCommitMessageWithOllama and main reject with it, and
\* nothing catches the rejection of main()
ProbeThrows ==
  /\ pc = "remote"
  /\ options.ollama
  /\ probeHostname(script, options) = Throws
  /\ pc' = "rejected"
  /\ UNCHANGED <<script, files, diff, options, codeAnalysis, categories, ollamaStatus, model,
                 response, ollamaMessage, commitMessage, usedOllama, requests, shortstat,
                 probe, generation, probeResponse, git>>

\* checkOllamaServer / checkLlamaServer: GET /api/tags is sent
SendProbe ==
  /\ pc = "remote"
  /\ options.ollama
  /\ probeHostname(script, options) # Throws
  /\ requests' = Append(requests, [kind |-> "probe", model |-> Null,
                                   hostname |-> probeHostname(script, options),
                                   port |-> probePort(script, options)])
  /\ probe' = "pending"
  /\ pc' = "probing"
  /\ UNCHANGED <<script, files, diff, options, codeAnalysis, categories, ollamaStatus, model,
                 response, ollamaMessage, commitMessage, usedOllama, shortstat, generation,
                 probeResponse, git>>

\* the probe is answered with a status code and a body
ProbeEnd(statusCode, body) ==
  /\ pc = "probing"
  /\ ollamaStatus' = onProbeEnd(script, statusCode, body)
  /\ probeResponse' = [statusCode |-> statusCode, body |-> body]
  /\ probe' = "answered"
  /\ pc' = "probed"
  /\ UNCHANGED <<script, files, diff, options, codeAnalysis, categories, model, response,
                 ollamaMessage, commitMessage, usedOllama, requests, shortstat, generation, git>>

\* req.on('error') of the probe
ProbeError ==
  /\ pc = "probing"
  /\ ollamaStatus' = unavailable
  /\ probe' = "error"
  /\ pc' = "probed"
  /\ UNCHANGED <<script, files, diff, options, codeAnalysis, categories, model, response,
                 ollamaMessage, commitMessage, usedOllama, requests, shortstat, generation,
                 probeResponse, git>>

\* the timeout handler resolving the server as available
ProbeTimeoutAvailable ==
  /\ pc = "probing"
  /\ ollamaStatus' = [available |-> TRUE, models |-> <<"llama2:latest">>]
  /\ probe' = "timeout"
  /\ pc' = "probed"
  /\ UNCHANGED <<script, files, diff, options, codeAnalysis, categories, model, response,
                 ollamaMessage, commitMessage, usedOllama, requests, shortstat, generation,
                 probeResponse, git>>

\* req.on('timeout') of the probe
ProbeTimeout ==
  /\ pc = "probing"
  /\ ollamaStatus' = unavailable
  /\ probe' = "timeout"
  /\ pc' = "probed"
  /\ UNCHANGED <<script, files, diff, options, codeAnalysis, categories, model, response,
                 ollamaMessage, commitMessage, usedOllama, requests, shortstat, generation,
                 probeResponse, git>>

\* if (!ollamaStatus.available) return null
ServerUnavailable ==
  /\ pc = "probed"
  /\ ~ollamaStatus.available
  /\ ollamaMessage' = Null
  /\ pc' = "resume"
  /\ UNCHANGED <<script, files, diff, options, codeAnalysis, categories, ollamaStatus, model,
                 response, commitMessage, usedOllama, requests, shortstat, probe, generation,
                 probeResponse, git>>

\* if (!model) return null
NoCompatibleModel ==
  /\ pc = "probed"
  /\ ollamaStatus.available
  /\ selectModel(script, options, ollamaStatus) = Null
  /\ ollamaMessage' = Null
  /\ pc' = "resume"
  /\ UNCHANGED <<script, files, diff, options, codeAnalysis, categories, ollamaStatus, model,
                 response, commitMessage, usedOllama, requests, shortstat, probe, generation,
                 probeResponse, git>>

\* POST /api/generate is sent
SendGenerate ==
  /\ pc = "probed"
  /\ ollamaStatus.available
  /\ selectModel(script, options, ollamaStatus) # Null
  /\ model' = selectModel(script, options, ollamaStatus)
  /\ requests' = Append(requests, [kind |-> "generate", model |-> model',
                                   hostname |-> generateHostname(options),
                                   port |-> generatePort(options)])
  /\ generation' = "pending"
  /\ pc' = "generating"
  /\ UNCHANGED <<script, files, diff, options, codeAnalysis, categories, ollamaStatus,
                 response, ollamaMessage, commitMessage, usedOllama, shortstat, probe,
                 probeResponse, git>>

\* res.on('end') of the generation request
GenerateEnd(body) ==
  /\ pc = "generating"
  /\ response' = body
  /\ ollamaMessage' = onGenerateEnd(script, body)
  /\ generation' = "answered"
  /\ pc' = "resume"
  /\ UNCHANGED <<script, files, diff, options, codeAnalysis, categories, ollamaStatus, model,
                 commitMessage, usedOllama, requests, shortstat, probe, probeResponse, git>>

\* req.on('error') of the generation request
GenerateError ==
  /\ pc = "generating"
  /\ ollamaMessage' = Null
  /\ generation' = "error"
  /\ pc' = "resume"
  /\ UNCHANGED <<script, files, diff, options, codeAnalysis, categories, ollamaStatus, model,
                 response, commitMessage, usedOllama, requests, shortstat, probe,
                 probeResponse, git>>

\* req.on('timeout') of the generation request
GenerateTimeout ==
  /\ pc = "generating"
  /\ ollamaMessage' = Null
  /\ generation' = "timeout"
  /\ pc' = "resume"
  /\ UNCHANGED <<script, files, diff, options, codeAnalysis, categories, ollamaStatus, model,
                 response, commitMessage, usedOllama, requests, shortstat, probe,
                 probeResponse, git>>

\* main after the await: if (ollamaMessage) { commitMessage = ollamaMessage; ... }
AcceptRemote ==
  /\ pc = "resume"
  /\ ollamaMessage # Null /\ ollamaMessage # ""
  /\ commitMessage' = ollamaMessage
  /\ usedOllama' = TRUE
  /\ pc' = "capitalize"
  /\ UNCHANGED <<script, files, diff, options, codeAnalysis, categories, ollamaStatus, model,
                 response, ollamaMessage, requests, shortstat, probe, generation,
                 probeResponse, git>>

\* main after the await, nothing usable came back
RejectRemote ==
  /\ pc = "resume"
  /\ ollamaMessage = Null \/ ollamaMessage = ""
  /\ pc' = "fallback"
  /\ UNCHANGED <<script, files, diff, options, codeAnalysis, categories, ollamaStatus, model,
                 response, ollamaMessage, commitMessage, usedOllama, requests, shortstat,
                 probe, generation, probeResponse, git>>

\* if (!commitMessage) { categories = categorizeFiles(files); commitMessage = ... }
Fallback ==
  /\ pc = "fallback"
  /\ categories' = categorizeFiles(files)
  /\ commitMessage' = ruleBasedMessage(script, categories', codeAnalysis, options, shortstat)
  /\ pc' = "capitalize"
  /\ UNCHANGED <<script, files, diff, options, codeAnalysis, ollamaStatus, model, response,
                 ollamaMessage, usedOllama, requests, shortstat, probe, generation,
                 probeResponse, git>>

\* Capitalize first letter
Capitalize ==
  /\ pc = "capitalize"
  /\ commitMessage' = capitalize(commitMessage)
  /\ pc' = "done"
  /\ UNCHANGED <<script, files, diff, options, codeAnalysis, categories, ollamaStatus, model,
                 response, ollamaMessage, usedOllama, requests, shortstat, probe, generation,
                 probeResponse, git>>

(***************************************************************************)
(* Inputs                                                                  *)
(***************************************************************************)

\* join a sequence of one-character strings
RECURSIVE concat(_)
concat(q) == IF Len(q) = 0 THEN "" ELSE Head(q) \o concat(Tail(q))

\* the sequences of length at most n over S
SeqsUpTo(S, n) == UNION {[1..k -> S] : k \in 0..n}

\* repeated character
RECURSIVE repeat(_, _)
repeat(c, n) == IF n = 0 THEN "" ELSE c \o repeat(c, n - 1)

\* git lists a staged path once
Distinct(q) == \A i, j \in 1..Len(q) : i # j => q[i] # q[j]

Scripts == {"ollama", "llama"}

OptionRecords(verboseFlags, detailedFlags, ollamaFlags, modelNames) ==
  [verbose : verboseFlags, detailed : detailedFlags, ollama : ollamaFlags, ollamaModel : modelNames,
   ollamaHost : {Null}, ollamaPort : {Null}]

\* the options with --host given; the host is read in remote mode only
hosted(opts, hosts) ==
  {[o EXCEPT !.ollamaHost = h] : o \in {x \in opts : x.ollama}, h \in hosts}
    \cup {o \in opts : ~o.ollama}

\* the options with --port given; the port is read in remote mode only
ported(opts, ports) ==
  {[o EXCEPT !.ollamaPort = p] : o \in {x \in opts : x.ollama}, p \in ports}
    \cup {o \in opts : ~o.ollama}

InitRun(scripts, fileLists, diffs, opts, summaries) ==
  /\ script \in scripts
  /\ files \in fileLists
  /\ diff \in diffs
  /\ options \in opts
  /\ shortstat \in summaries
  /\ pc = IF script = "ollama" THEN "analyze" ELSE "remote"
  /\ codeAnalysis = emptyAnalysis
  /\ categories = emptyCategories
  /\ ollamaStatus = unavailable
  /\ model = Null
  /\ response = UnparsableBody
  /\ ollamaMessage = Null
  /\ commitMessage = Null
  /\ usedOllama = FALSE
  /\ requests = <<>>
  /\ probe = "unsent"
  /\ generation = "unsent"
  /\ probeResponse = NoProbeResponse
  /\ git = [listing |-> IF files = <<>> THEN "failed" ELSE "ok",
            diffing |-> IF diff = "" THEN "failed" ELSE "ok"]

\* main before its first git command
InitStart(scripts, opts, summaries) ==
  /\ script \in scripts
  /\ files = <<>>
  /\ diff = ""
  /\ options \in opts
  /\ shortstat \in summaries
  /\ pc = "start"
  /\ codeAnalysis = emptyAnalysis
  /\ categories = emptyCategories
  /\ ollamaStatus = unavailable
  /\ model = Null
  /\ response = UnparsableBody
  /\ ollamaMessage = Null
  /\ commitMessage = Null
  /\ usedOllama = FALSE
  /\ requests = <<>>
  /\ probe = "unsent"
  /\ generation = "unsent"
  /\ probeResponse = NoProbeResponse
  /\ git = [listing |-> "unrun", diffing |-> "unrun"]

\* the git commands of main, each succeeding or failing
InputSteps(fileLists, diffs) ==
  \/ \E inside \in BOOLEAN : CheckRepository(inside)
  \/ \E staged \in BOOLEAN : CheckStagedChanges(staged)
  \/ \E succeeds \in BOOLEAN, listing \in fileLists : GetStagedFiles(succeeds, listing)
  \/ \E succeeds \in BOOLEAN, text \in diffs : GetDetailedDiff(succeeds, text)

(***************************************************************************)
(* Rule-based composition: categorizeFiles and generateCommitMessage on    *)
(* lists of staged paths, remote mode off.                                 *)
(***************************************************************************)

MaxFiles == 3

StagedPaths ==
  {"src/app.js", "src/utils.js", "styles/main.css", "README.md", "CHANGELOG.md",
   "test.sh", "deploy.sh", "notes.txt", "Makefile", "auth.test.js"}

FileLists == {q \in SeqsUpTo(StagedPaths, MaxFiles) : Distinct(q)}

\* the diff texts of the composition runs: git failed ('') or one added line
ComposeDiffs == {"", "+TODO"}

InitCompose ==
  InitRun({"ollama"}, FileLists, ComposeDiffs, OptionRecords(BOOLEAN, {FALSE}, {FALSE}, {Null}), {Null})

NextCompose == AnalyzeChanges \/ SkipRemote \/ Fallback \/ Capitalize

SpecCompose == InitCompose /\ [][NextCompose]_vars

\* the rule-based message has been composed and not yet capitalized
Composed == pc = "capitalize" /\ ~usedOllama

\* number of buckets holding the file
bucketsHolding(cats, file) ==
  Cardinality({b \in DOMAIN cats : arrayIncludes(cats[b], file)})

RECURSIVE sumLengths(_, _, _)
sumLengths(cats, names, i) ==
  IF i > Len(names) THEN 0 ELSE Len(cats[names[i]]) + sumLengths(cats, names, i + 1)

\* C1: categorizeFiles partitions the staged paths: every path is in exactly
\* one of the seven buckets, the bucket sizes sum to the number of paths, and
\* the buckets hold nothing but staged paths.
C1_BucketsPartitionInput ==
  Composed =>
    /\ DOMAIN categories = {"code", "config", "docs", "tests", "styles", "scripts", "other"}
    /\ \A i \in 1..Len(files) : bucketsHolding(categories, files[i]) = 1
    /\ sumLengths(categories, BucketNames, 1) = Len(files)
    /\ \A b \in DOMAIN categories : \A j \in 1..Len(categories[b]) :
         arrayIncludes(files, categories[b][j])

C1_Witness ==
  /\ Composed
  /\ Len(files) = 3
  /\ Len(categories.code) = 1 /\ Len(categories.tests) = 1 /\ Len(categories.scripts) = 1

\* C2: Scenario A: src/app.js, src/utils.js and styles/main.css, no pattern
\* match, verbose off: code:2, style:1 and the message
\* "Update 2 source code file, 1 stylesheet".
C2_ScenarioA ==
  (/\ Composed
   /\ files = <<"src/app.js", "src/utils.js", "styles/main.css">>
   /\ Len(codeAnalysis.patterns) = 0
   /\ ~options.verbose /\ ~options.detailed)
  => /\ Len(categories.code) = 2
     /\ Len(categories.styles) = 1
     /\ commitMessage = "Update 2 source code file, 1 stylesheet"

\* C3: Scenario B: README.md and CHANGELOG.md, no pattern match, verbose on:
\* both files are docs and the message is
\* "Update documentation (README.md, CHANGELOG.md)".
C3_ScenarioB ==
  (/\ Composed
   /\ files = <<"README.md", "CHANGELOG.md">>
   /\ Len(codeAnalysis.patterns) = 0
   /\ options.verbose /\ ~options.detailed)
  => /\ categories.docs = <<"README.md", "CHANGELOG.md">>
     /\ commitMessage = "Update documentation (README.md, CHANGELOG.md)"

\* C4: with no staged file and no pattern match, generateCommitMessage
\* returns "Update files", verbose on or off.
C4_EmptyListGivesUpdateFiles ==
  (/\ Composed
   /\ files = <<>>
   /\ Len(codeAnalysis.patterns) = 0
   /\ ~options.detailed)
  => commitMessage = "Update files"

C4_Witness ==
  /\ Composed
  /\ files = <<>>
  /\ Len(codeAnalysis.patterns) = 0
  /\ options.verbose /\ ~options.detailed
  /\ commitMessage = "Update files"

\* the file name holds "test" or "spec"
testNamed(file) ==
  includes(basename(file), "test") \/ includes(basename(file), "spec")

\* C18: every staged file whose name holds "test" or "spec" is in the tests
\* bucket, auth.test.js included.
C18_TestNamedFilesAreTests ==
  Composed =>
    \A i \in 1..Len(files) : testNamed(files[i]) => arrayIncludes(categories.tests, files[i])

\* the clauses of the claim, in the claim's order: bucket, label, adjective
clauseTable ==
  << <<"code", "code file", "source ">>, <<"config", "configuration", "">>,
     <<"docs", "documentation", "">>, <<"tests", "test", "">>,
     <<"styles", "stylesheet", "">>, <<"scripts", "script", "">>, <<"other", "file", "">> >>

\* "Update", the count for a bucket of more than one file, the adjective and
\* the label
claimedClause(n, label, adjective) ==
  "Update " \o (IF n > 1 THEN ToString(n) \o " " ELSE "") \o adjective \o label

RECURSIVE claimedClauses(_, _)
claimedClauses(cats, k) ==
  IF k > Len(clauseTable) THEN <<>>
  ELSE (IF Len(cats[clauseTable[k][1]]) > 0
        THEN <<claimedClause(Len(cats[clauseTable[k][1]]), clauseTable[k][2], clauseTable[k][3])>>
        ELSE <<>>) \o claimedClauses(cats, k + 1)

\* C22: the category-based message is one clause per non-empty bucket, in the
\* order code, config, docs, test, style, script, other, joined with ", ";
\* every clause starts with "Update", the code clause alone has the adjective
\* "source", whatever the size of the bucket, a bucket of one file has the
\* bare label and a bucket of n > 1 files has n before the label.
C22_CategoryClauses ==
  (/\ Composed
   /\ Len(files) > 0
   /\ Len(codeAnalysis.patterns) = 0
   /\ ~options.verbose /\ ~options.detailed)
  => commitMessage = join(claimedClauses(categories, 1), ", ")

\* C14: the message of a run, before its capitalization, is not empty and
\* not longer than the length ceiling, however many files are staged and
\* whether verbose is on or off.
C14_LengthCeiling ==
  pc = "capitalize" =>
    /\ Len(commitMessage) > 0
    /\ Len(commitMessage) <= MaxMessageLength

(***************************************************************************)
(* Diff analysis: analyzeCodeChanges on diff texts of a few lines          *)
(***************************************************************************)

MaxDiffLines == 2
MaxAnalyzedFiles == 2

DiffLines ==
  {"+console.log(x)", "-console.log(x)", "+// TODO", " // FIXME",
   "+import 'b'", "+it(1)", "+function f()"}

DiffTexts == {join(q, "\n") : q \in SeqsUpTo(DiffLines, MaxDiffLines)}

\* staged paths in the order git lists them (sorted by name)
AnalyzedPaths == <<"auth.test.ts", "config.json", "src/app.js">>

\* the paths at the positions ps, in the order of the listing
listed(paths, ps) ==
  [i \in 1..Cardinality(ps) |->
     paths[CHOOSE p \in ps : Cardinality({q \in ps : q < p}) = i - 1]]

AnalyzedFileLists ==
  {listed(AnalyzedPaths, ps) :
     ps \in {qs \in SUBSET (1..Len(AnalyzedPaths)) : Cardinality(qs) <= MaxAnalyzedFiles}}

\* the added line of Scenario C, alone and in the diff git prints for it
asyncFunctionLine == "+async function fetchData() {}"

ScenarioCDiffs ==
  {asyncFunctionLine,
   "diff --git a/src/app.js b/src/app.js\nindex 1a2b3c4..5d6e7f8 100644\n"
     \o "--- a/src/app.js\n+++ b/src/app.js\n@@ -1,0 +2 @@\n" \o asyncFunctionLine}

\* the diff git prints for a comment added to auth.test.ts and a test call
\* added to src/app.js
twoFileDiff ==
  "diff --git a/auth.test.ts b/auth.test.ts\nindex 1a2b3c4..5d6e7f8 100644\n"
    \o "--- a/auth.test.ts\n+++ b/auth.test.ts\n@@ -1,0 +2 @@\n+// TODO\n"
    \o "diff --git a/src/app.js b/src/app.js\nindex 2b3c4d5..6e7f8a9 100644\n"
    \o "--- a/src/app.js\n+++ b/src/app.js\n@@ -1,0 +2 @@\n+it(1)"

\* diffs whose debug-logging calls are all on removed lines
RemovedDebugDiffs ==
  {"-console.debug(x)", "-console.info(x)", "-console.log(x)\n-console.debug(x)",
   "+let y\n-console.info(x)"}

\* diffs with one of the words of the test signature off an added line
TestWordDiffs == {"-expect(x)", " // describe", "spec", "-a\n edit"}

InitAnalyze ==
  InitRun({"ollama"}, AnalyzedFileLists,
          DiffTexts \cup ScenarioCDiffs \cup {twoFileDiff} \cup RemovedDebugDiffs
            \cup TestWordDiffs,
          OptionRecords({FALSE}, {FALSE}, {FALSE}, {Null}), {Null})

NextAnalyze == AnalyzeChanges \/ SkipRemote \/ Fallback \/ Capitalize

SpecAnalyze == InitAnalyze /\ [][NextAnalyze]_vars

\* analyzeCodeChanges has just returned
Analyzed == script = "ollama" /\ pc = "remote"

debugAddedSignature == patternCatalogue[1]
todoAddedSignature == patternCatalogue[2]

\* C5: a diff matching both the "debug logging added" and the "TODO marker
\* added" signature has the debug-logging pattern as its primary pattern,
\* whichever of the two lines comes first in the diff.
C5_DebugBeforeTodo ==
  (/\ Analyzed
   /\ test(debugAddedSignature.pattern, diff)
   /\ test(todoAddedSignature.pattern, diff))
  => /\ Len(codeAnalysis.patterns) > 0
     /\ codeAnalysis.patterns[1] = [type |-> "debugging", action |-> "Add debug logging"]

\* the TODO line comes first in the text, the debug line second
C5_Witness ==
  /\ Analyzed
  /\ diff = "+// TODO\n+console.log(x)"
  /\ codeAnalysis.patterns[1].action = "Add debug logging"
  /\ codeAnalysis.patterns[2].action = "Add TODO comments"

\* position in the catalogue of the signature a pattern entry comes from
catalogueIndex(p) ==
  CHOOSE k \in 1..Len(patternCatalogue) :
    patternCatalogue[k].type = p.type /\ patternCatalogue[k].action = p.action

\* C6: the pattern list holds at most one entry per type, the entry of a type
\* is the first signature of that type, in catalogue order, that matches the
\* diff, and the entries are in catalogue order.
C6_OnePatternPerTypeInCatalogueOrder ==
  Analyzed =>
    LET p == codeAnalysis.patterns
    IN /\ \A i, j \in 1..Len(p) : i # j => p[i].type # p[j].type
       /\ \A i \in 1..Len(p) :
            \E k \in 1..Len(patternCatalogue) :
              /\ patternCatalogue[k].type = p[i].type
              /\ patternCatalogue[k].action = p[i].action
              /\ test(patternCatalogue[k].pattern, diff)
              /\ \A k2 \in 1..(k - 1) :
                   patternCatalogue[k2].type = p[i].type => ~test(patternCatalogue[k2].pattern, diff)
       /\ \A i, j \in 1..Len(p) : i < j => catalogueIndex(p[i]) < catalogueIndex(p[j])

\* added and removed debug logging both match, the removal first in the text
C6_Witness ==
  /\ Analyzed
  /\ diff = "-console.log(x)\n+console.log(x)"
  /\ test(patternCatalogue[1].pattern, diff)
  /\ test(patternCatalogue[4].pattern, diff)
  /\ Len(codeAnalysis.patterns) >= 1
  /\ codeAnalysis.patterns[1].action = "Add debug logging"

\* C7: no evidence collection (functions, imports, tests, configs, types)
\* holds the same entry twice.
C7_NoDuplicateEvidence ==
  Analyzed =>
    /\ Distinct(codeAnalysis.functions)
    /\ Distinct(codeAnalysis.imports)
    /\ Distinct(codeAnalysis.tests)
    /\ Distinct(codeAnalysis.configs)
    /\ Distinct(codeAnalysis.types)

asyncSignature == patternCatalogue[9]

\* C12: Scenario C: the diff holds the added line "async function
\* fetchData() {}", a source file is staged and no test-named file is: the
\* functions found are ["fetchData"], the primary pattern is the
\* asynchronous-control signature and the message begins with its action
\* phrase (with or without the "Add " the composer strips) and "1 function".
C12_ScenarioC ==
  (/\ Composed
   /\ includes(diff, asyncFunctionLine)
   /\ arrayIncludes(files, "src/app.js")
   /\ ~arrayIncludes(files, "auth.test.ts"))
  => /\ codeAnalysis.functions = <<"fetchData">>
     /\ Len(codeAnalysis.patterns) > 0
     /\ codeAnalysis.patterns[1] = [type |-> asyncSignature.type, action |-> asyncSignature.action]
     /\ \/ startsWithAt(commitMessage, 1, "Add async functionality with 1 function")
        \/ startsWithAt(commitMessage, 1, "async functionality with 1 function")

\* the clause of the claim: every evidence kind that is not empty, in the
\* order functions, tests, imports, types, as count and noun
countedEvidence(a) ==
  (IF Len(a.functions) > 0 THEN <<counted(Len(a.functions), "function")>> ELSE <<>>)
    \o (IF Len(a.tests) > 0 THEN <<counted(Len(a.tests), "test")>> ELSE <<>>)
    \o (IF Len(a.imports) > 0 THEN <<counted(Len(a.imports), "import")>> ELSE <<>>)
    \o (IF Len(a.types) > 0 THEN <<counted(Len(a.types), "type")>> ELSE <<>>)

\* msg is the action, whole or without its leading "Add ", then " with " and
\* the comma-joined clause; the action alone for an empty clause
actionWithClause(msg, action, parts) ==
  IF Len(parts) = 0 THEN msg = action
  ELSE \/ msg = action \o " with " \o join(parts, ", ")
       \/ /\ startsWithAt(action, 1, "Add ")
          /\ msg = SubSeq(action, 5, Len(action)) \o " with " \o join(parts, ", ")

\* C20: when a pattern matched, the message is the primary action followed
\* by " with " and the clause listing every non-empty evidence kind among
\* functions, tests, imports and types, in that order, each as a count and
\* its noun ("1 function", "2 functions", "1 import"), or the action alone
\* when there is no such evidence.
C20_SummaryClause ==
  (Composed /\ Len(codeAnalysis.patterns) > 0 /\ ~options.detailed)
  => actionWithClause(commitMessage, codeAnalysis.patterns[1].action,
                      countedEvidence(codeAnalysis))

\* C21: when a pattern matched and at least one test-assertion entry was
\* recorded, the rule-based message holds the test count clause ("1 test",
\* "2 tests"), also when the only test-named file has a source-code
\* extension.
C21_TestClausePresent ==
  (/\ Composed
   /\ Len(codeAnalysis.patterns) > 0
   /\ Len(codeAnalysis.tests) > 0)
  => includes(commitMessage, counted(Len(codeAnalysis.tests), "test"))

\* the header line git prints before the changes of a file
fileHeader(file) == "diff --git a/" \o file \o " b/" \o file \o "\n"

\* the part of the diff about the file: from its header to the next header
hunkOf(d, file) ==
  IF ~includes(d, fileHeader(file)) THEN ""
  ELSE fileHeader(file) \o before(after(d, fileHeader(file)), "diff --git ")

\* the evidence when every file is analyzed on its own part of the diff
RECURSIVE ownHunkEvidence(_, _, _, _)
ownHunkEvidence(analysis, fs, d, i) ==
  IF i > Len(fs) THEN analysis
  ELSE ownHunkEvidence(analyzeFile(analysis, fs[i], hunkOf(d, fs[i])), fs, d, i + 1)

sameEvidence(a, b) ==
  /\ a.functions = b.functions
  /\ a.imports = b.imports
  /\ a.tests = b.tests
  /\ a.configs = b.configs
  /\ a.types = b.types

\* C23: evidence is attributed per file: when the diff has one part per
\* staged file, a line adds to an evidence kind only when it is in the part
\* about a file that qualifies for the kind, so a test call added to a file
\* that is not test-named is no test evidence even when a test-named file is
\* staged.
C23_EvidencePerFile ==
  (/\ Analyzed
   /\ \A i \in 1..Len(files) : includes(diff, fileHeader(files[i]))
   /\ Len(matchAll(diff, << <<Lit("diff --git ")>> >>)) = Len(files))
  => sameEvidence(codeAnalysis, ownHunkEvidence(emptyAnalysis, files, diff, 1))

(***************************************************************************)
(* The remote generator on response texts: every text of a few characters  *)
(* over quotes, period, letter, blank and newline, and the texts around    *)
(* the length ceiling.                                                     *)
(***************************************************************************)

MaxResponseLen == 4

ResponseAlphabet == {"\"", ".", "a", " ", "\n"}

ShortTexts == {concat(q) : q \in SeqsUpTo(ResponseAlphabet, MaxResponseLen)}

Quotes == {"\"", "'"}
PlainTexts == {"a", "fix bug"}

\* nested quotes, quoted text with a period
QuotedTexts ==
  {q1 \o q2 \o x \o q2 \o q1 : q1 \in Quotes, q2 \in Quotes, x \in PlainTexts}
    \cup {q1 \o x \o "." \o q1 : q1 \in Quotes, x \in PlainTexts}
    \cup {x \o ".." : x \in PlainTexts}

\* texts whose cleaned length is just below, at and above the ceiling
CeilingTexts ==
  {repeat("a", n) : n \in (MaxMessageLength - 1)..(MaxMessageLength + 1)}
    \cup {"\"" \o repeat("a", MaxMessageLength - 1) \o "\"",
          repeat("a", MaxMessageLength) \o ".",
          "Here's a commit message: " \o repeat("a", MaxMessageLength - 1),
          repeat("a", MaxMessageLength - 1) \o " - log"}

ResponseTexts == ShortTexts \cup QuotedTexts \cup CeilingTexts \cup {Null, NotAString}

ResponseBodies == {GenerateBody(t) : t \in ResponseTexts} \cup {UnparsableBody}

RemoteProbeBodies == {ProbeBody(<<"llama2:latest">>), ProbeBody(<<>>)}

\* --host absent, and a URL without a hostname
RemoteHosts == {Null, "http://"}

InitRemote ==
  InitRun(Scripts, {<<"src/app.js">>}, {""},
          hosted(OptionRecords({FALSE}, {FALSE}, {TRUE}, {Null}), RemoteHosts), {Null})

RemoteSteps(statusCodes, probeBodies, bodies) ==
  \/ ProbeThrows
  \/ SendProbe
  \/ \E st \in statusCodes, b \in probeBodies : ProbeEnd(st, b)
  \/ ProbeError
  \/ ProbeTimeout
  \/ ServerUnavailable
  \/ NoCompatibleModel
  \/ SendGenerate
  \/ \E b \in bodies : GenerateEnd(b)
  \/ GenerateError
  \/ GenerateTimeout
  \/ AcceptRemote
  \/ RejectRemote

LocalSteps == SkipRemote \/ Fallback \/ Capitalize

NextRemote ==
  \/ AnalyzeChanges
  \/ RemoteSteps({200, 500}, RemoteProbeBodies, ResponseBodies)
  \/ Fallback
  \/ Capitalize

SpecRemote == InitRemote /\ [][NextRemote]_vars

\* the generation request has just been answered with a string in the response field
Answered ==
  /\ pc = "resume"
  /\ generation = "answered"

AnsweredText ==
  /\ Answered
  /\ response.parsed
  /\ response.response \notin {Null, NotAString}

\* C8: the remote generator returns a message only when the sanitized text
\* is longer than 0 and shorter than 100 characters: a returned message has
\* such a length, a sanitized length of 0 or of 100 or more gives null, and
\* so does an empty or missing response field.
C8_AcceptOnlyBelowCeiling ==
  /\ (pc = "resume" /\ ollamaMessage # Null)
       => /\ generation = "answered"
          /\ Len(ollamaMessage) > 0 /\ Len(ollamaMessage) < 100
          /\ ollamaMessage = cleanedMessage(script, response.response)
  /\ (AnsweredText /\ Len(cleanedMessage(script, response.response)) = 0)
       => ollamaMessage = Null
  /\ (AnsweredText /\ Len(cleanedMessage(script, response.response)) >= 100)
       => ollamaMessage = Null
  /\ (Answered /\ response.parsed /\ response.response \in {Null, ""})
       => ollamaMessage = Null

\* a sanitized text of exactly 100 characters is turned down
C8_Witness ==
  /\ AnsweredText
  /\ response.response = repeat("a", 100) \o "."
  /\ Len(cleanedMessage(script, response.response)) = 100
  /\ ollamaMessage = Null

\* C9: sanitization strips one pair of surrounding quotes and one trailing
\* period: of two nested pairs of quotes the inner pair stays, of ".." one
\* period stays, and a quoted "<text>." yields <text>.
C9_OneQuotePairOnePeriod ==
  AnsweredText =>
    /\ \A q1 \in Quotes, q2 \in Quotes, x \in PlainTexts :
         response.response = q1 \o q2 \o x \o q2 \o q1 => ollamaMessage = q2 \o x \o q2
    /\ \A x \in PlainTexts :
         response.response = x \o ".." => ollamaMessage = x \o "."
    /\ \A q1 \in Quotes, x \in PlainTexts :
         response.response = q1 \o x \o "." \o q1 => ollamaMessage = x

C9_Witness ==
  /\ AnsweredText
  /\ response.response = "\"'fix bug'\""
  /\ ollamaMessage = "'fix bug'"

\* the probe ended with a status other than 200, an error or a timeout
probeFailed ==
  \/ probe \in {"error", "timeout"}
  \/ probe = "answered" /\ probeResponse.statusCode # 200

\* C15: one invocation issues at most one probe and at most one generation
\* request, the probe first; a generation request is issued only after the
\* probe was answered with status 200; after a probe that ended with another
\* status, an error or a timeout the generator returns none and no
\* generation request is issued.
C15_SingleAttemptInOrder ==
  /\ Len(requests) <= 2
  /\ Len(requests) >= 1 => requests[1].kind = "probe"
  /\ Len(requests) = 2 =>
       /\ requests[2].kind = "generate"
       /\ probe = "answered"
       /\ probeResponse.statusCode = 200
  /\ generation # "unsent" => Len(requests) = 2
  /\ probeFailed =>
       /\ Len(requests) = 1
       /\ generation = "unsent"
       /\ pc # "probed" => (ollamaMessage = Null /\ ~usedOllama)

\* a probe answered 200 followed by an answered generation request, and the
\* run is over
C15_Witness ==
  /\ pc = "done"
  /\ Len(requests) = 2
  /\ probeResponse.statusCode = 200
  /\ generation = "answered"
  /\ usedOllama

(***************************************************************************)
(* Whole runs of main, both scripts, remote mode on and off                *)
(***************************************************************************)

RunFileLists == {<<>>, <<"src/app.js">>, <<"README.md", "auth.test.ts">>}
RunDiffs == {"", "+ console.log(x)\n+import a from 'b'"}
RunSummaries == {Null, "1 file changed, 2 insertions(+)"}
RunModels == {Null, "mistral"}
RunProbeBodies ==
  {ProbeBody(<<>>), ProbeBody(<<"mistral", "gemma3n:latest">>), ProbeBodyNoModels,
   UnparsableProbeBody}
RunResponseBodies ==
  {GenerateBody(t) : t \in {Null, NotAString, "", "\"Add logging.\"", "fix\nbug", "..",
                            "update file", repeat("a", MaxMessageLength)}}
    \cup {UnparsableBody}

RunHosts == {Null, "http://"}

Init ==
  InitRun(Scripts, RunFileLists, RunDiffs,
          hosted(OptionRecords(BOOLEAN, BOOLEAN, BOOLEAN, RunModels), RunHosts), RunSummaries)

Next ==
  \/ AnalyzeChanges
  \/ LocalSteps
  \/ RemoteSteps({200, 500}, RunProbeBodies, RunResponseBodies)

Spec == Init /\ [][Next]_vars

\* the final message of a run of main in which remote mode is not requested
localRunMessage(scr, fs, d, opts, summary) ==
  LET a == IF scr = "ollama" THEN analyzeCodeChanges(fs, d) ELSE emptyAnalysis
  IN capitalize(ruleBasedMessage(scr, categorizeFiles(fs), a, opts, summary))

\* C10: Scenario D: a run with remote mode requested whose probe times out
\* ends with the message of the run on the same input without remote mode.
C10_ProbeTimeoutSameAsLocal ==
  /\ (pc = "done" /\ ~options.ollama)
       => commitMessage = localRunMessage(script, files, diff, options, shortstat)
  /\ (pc = "done" /\ options.ollama /\ probe = "timeout")
       => /\ commitMessage =
               localRunMessage(script, files, diff, [options EXCEPT !.ollama = FALSE], shortstat)
          /\ ~usedOllama

C10_Witness ==
  /\ pc = "done"
  /\ options.ollama /\ options.detailed
  /\ probe = "timeout"
  /\ script = "ollama"
  /\ files = <<"src/app.js">>
  /\ commitMessage = "Update: debug logging with new imports"

\* the remote generator has returned without a message for one of the
\* failures of the remote path
remoteFailed ==
  /\ pc = "resume"
  /\ \/ probe \in {"error", "timeout"}
     \/ probe = "answered" /\ ~ollamaStatus.available
     \/ probe = "answered" /\ ollamaStatus.available /\ generation = "unsent"
     \/ generation \in {"error", "timeout"}
     \/ generation = "answered" /\ ~response.parsed
     \/ generation = "answered" /\ response.parsed /\ response.response \in {Null, NotAString}
     \/ /\ generation = "answered" /\ response.parsed
        /\ response.response \notin {Null, NotAString}
        /\ ~suitable(cleanedMessage(script, response.response))

\* C11: every failure of the remote path makes the remote generator yield
\* none and the run end with the rule-based message, and for no configured
\* host does a run with remote mode requested end in a rejected promise.
C11_RemoteFailuresFallBack ==
  /\ pc # "rejected"
  /\ remoteFailed => ollamaMessage = Null
  /\ (pc = "done" /\ options.ollama /\ ~usedOllama)
       => commitMessage =
            localRunMessage(script, files, diff, [options EXCEPT !.ollama = FALSE], shortstat)

\* the message main chose before capitalizing it
chosenMessage ==
  IF usedOllama THEN ollamaMessage
  ELSE ruleBasedMessage(script, categories, codeAnalysis, options, shortstat)

\* final is chosen with its first character upper-cased
capitalizedFrom(final, chosen) ==
  /\ Len(final) = Len(chosen)
  /\ charAt(final, 1) = upperChar(charAt(chosen, 1))
  /\ \A i \in 2..Len(chosen) : charAt(final, i) = charAt(chosen, i)
  /\ chosen = "update file" => final = "Update file"
  /\ charAt(chosen, 1) \in charsOf(UpperLetters) => final = chosen

\* C13: the final message is the chosen message, remote or rule-based, with
\* its first character upper-cased and every other character unchanged;
\* capitalizing it again changes nothing, "update file" becomes "Update file"
\* and a message starting with an upper-case letter stays as it is.
C13_CapitalizedOnce ==
  pc = "done" =>
    /\ capitalizedFrom(commitMessage, chosenMessage)
    /\ capitalize(commitMessage) = commitMessage

C13_Witness ==
  /\ pc = "done"
  /\ usedOllama
  /\ ollamaMessage = "update file"
  /\ commitMessage = "Update file"

\* analyzeCodeChanges has run: it always sets a summary
analysisExecuted == codeAnalysis.summary # ""

\* categorizeFiles has run on the staged files
categorizationExecuted == categories = categorizeFiles(files) /\ categories # emptyCategories

MaxChangedLines == 3

\* Number.prototype.toString of a natural number
RECURSIVE decimal(_)
decimal(n) ==
  IF n < 10 THEN SubSeq(Digits, n + 1, n + 1)
  ELSE decimal(n \div 10) \o SubSeq(Digits, (n % 10) + 1, (n % 10) + 1)

\* "<n> <noun>" with the plural s git prints for every count but 1
gitCounted(n, noun) == decimal(n) \o " " \o noun \o (IF n = 1 THEN "" ELSE "s")

\* the trimmed line git prints for one changed file with the given numbers
\* of inserted and deleted lines; a part whose count is 0 is left out unless
\* both are 0
gitShortstat(insertions, deletions) ==
  "1 file changed"
    \o (IF insertions > 0 \/ deletions = 0
        THEN ", " \o gitCounted(insertions, "insertion") \o "(+)" ELSE "")
    \o (IF deletions > 0 \/ insertions = 0
        THEN ", " \o gitCounted(deletions, "deletion") \o "(-)" ELSE "")

ShortstatLines ==
  {gitShortstat(i, d) : i \in 0..MaxChangedLines, d \in 0..MaxChangedLines}

InitDetailed ==
  InitRun(Scripts, {<<"src/app.js">>}, {"+TODO"},
          OptionRecords(BOOLEAN, {TRUE}, {FALSE}, {Null}), ShortstatLines \cup {Null})

NextDetailed == AnalyzeChanges \/ SkipRemote \/ Fallback \/ Capitalize

SpecDetailed == InitDetailed /\ [][NextDetailed]_vars

\* C19: in detailed mode the rule-based message starts with the verb for the
\* numbers of insertions and deletions of the shortstat line: "Add" for
\* insertions only, "Remove" for deletions only, "Enhance" for insertions
\* above twice the deletions, "Simplify" for deletions above twice the
\* insertions, "Update" otherwise.
C19_VerbFromShortstat ==
  (Composed /\ options.detailed) =>
    \A i \in 0..MaxChangedLines, d \in 0..MaxChangedLines :
      shortstat = gitShortstat(i, d) => startsWithAt(commitMessage, 1, verbFor(i, d) \o ": ")

(***************************************************************************)
(* Runs of main from its first git command, each command succeeding or     *)
(* failing                                                                 *)
(***************************************************************************)

InputFileLists == {<<"src/app.js">>, <<"README.md", "src/app.js">>}
InputDiffs == {"+console.log(x)", "+function f()"}
InputResponseBodies == {GenerateBody("update file"), GenerateBody(""), UnparsableBody}

InitInputs ==
  InitStart(Scripts, hosted(OptionRecords({FALSE}, BOOLEAN, BOOLEAN, {Null}), RemoteHosts),
            RunSummaries)

NextInputs ==
  \/ InputSteps(InputFileLists, InputDiffs)
  \/ AnalyzeChanges
  \/ LocalSteps
  \/ RemoteSteps({200, 500}, RemoteProbeBodies, InputResponseBodies)

SpecInputs == InitInputs /\ [][NextInputs]_vars

\* C17: when the command listing the staged paths or the command printing
\* the staged diff fails, the run ends there: no commit message is composed
\* and no remote request is issued.
C17_InputFailureIsFatal ==
  (git.listing = "failed" \/ git.diffing = "failed")
  => /\ commitMessage = Null
     /\ requests = <<>>
     /\ pc \notin {"capitalize", "done"}

\* the inventory the probe was answered with
inventory == probeResponse.body.models

\* m is the first name of the preferred list that the inventory holds
firstPreferredIn(m, inv) ==
  \E k \in 1..Len(defaultModels) :
    /\ defaultModels[k] = m
    /\ arrayIncludes(inv, m)
    /\ \A j \in 1..(k - 1) : ~arrayIncludes(inv, defaultModels[j])

\* C16: with a non-empty inventory the generation request names the model
\* the caller gave; without one, the first name of the preferred list found
\* in the inventory; without such a name, the first entry of the inventory.
C16_ModelSelection ==
  (/\ Len(requests) = 2
   /\ probeResponse.body.parsed
   /\ Len(inventory) > 0)
  => IF options.ollamaModel # Null THEN requests[2].model = options.ollamaModel
     ELSE IF \E k \in 1..Len(defaultModels) : arrayIncludes(inventory, defaultModels[k])
     THEN firstPreferredIn(requests[2].model, inventory)
     ELSE requests[2].model = inventory[1]

\* C25: after a probe answered 200 with an empty inventory the remote
\* generator returns none and no generation request is issued, whether or
\* not the caller named a model.
C25_EmptyInventoryGivesNone ==
  (/\ probe = "answered"
   /\ probeResponse.statusCode = 200
   /\ probeResponse.body.parsed
   /\ Len(inventory) = 0)
  => /\ Len(requests) = 1
     /\ generation = "unsent"
     /\ ollamaMessage = Null

\* C26: when the remote response has several lines, the accepted message is
\* the cleaned text of the response's first line alone; nothing of the later
\* lines is in it.
C26_OnlyFirstLineAccepted ==
  (/\ generation = "answered"
   /\ response.parsed
   /\ response.response \notin {Null, NotAString}
   /\ includes(trim(response.response), "\n")
   /\ ollamaMessage # Null)
  => ollamaMessage = cleanedMessage(script, firstLine(trim(response.response)))

\* both network calls of the remote generator are settled or were skipped
remoteCompleted ==
  /\ probe \in {"answered", "error", "timeout"}
  /\ generation \in {"unsent", "answered", "error", "timeout"}

\* the step of main that calls generateCommitMessage
invokesRuleBased == pc = "fallback" /\ pc' = "capitalize"

\* C27: with remote mode requested generateCommitMessage is not called before
\* the remote generator completed; main calls it exactly when remote mode is
\* not requested or the generator returned none; a message the generator
\* returned is, capitalized, the final commit message.
C27_RuleBasedOnlyAfterRemote ==
  /\ [][(invokesRuleBased /\ options.ollama) => (remoteCompleted /\ ollamaMessage = Null)]_vars
  /\ [][(pc # "capitalize" /\ pc' = "capitalize")
          => (invokesRuleBased <=> (~options.ollama \/ ollamaMessage = Null))]_vars
  /\ []((pc = "done" /\ ollamaMessage # Null)
          => (usedOllama /\ commitMessage = capitalize(ollamaMessage)))

C27_Witness ==
  /\ pc = "done"
  /\ options.ollama
  /\ remoteCompleted
  /\ ollamaMessage = "update file"
  /\ commitMessage = "Update file"

DebugCalls == {"console.log", "console.debug", "console.info"}

\* position of the first character of the line of s that holds position i
lineStart(s, i) ==
  LET breaks == {j \in 1..(i - 1) : charAt(s, j) = "\n"}
  IN IF breaks = {} THEN 1 ELSE 1 + CHOOSE j \in breaks : \A k \in breaks : k <= j

\* the positions of d at which a debug-logging call starts
debugPositions(d) ==
  {i \in 1..Len(d) : \E c \in DebugCalls : startsWithAt(d, i, c)}

patternActions(analysis) ==
  {analysis.patterns[k].action : k \in 1..Len(analysis.patterns)}

\* C28: for a diff whose debug-logging calls are all on removed lines the
\* pattern list has "Remove debug logging" and not "Add debug logging".
C28_DebugOnRemovedLines ==
  (/\ Analyzed
   /\ debugPositions(diff) # {}
   /\ \A i \in debugPositions(diff) : charAt(diff, lineStart(diff, i)) = "-")
  => /\ "Remove debug logging" \in patternActions(codeAnalysis)
     /\ "Add debug logging" \notin patternActions(codeAnalysis)

TestWords == {"it", "spec", "describe", "expect"}

\* d has a "diff --git" header or one of the test words anywhere
hasTestWord(d) == includes(d, "diff --git ") \/ \E w \in TestWords : includes(d, w)

\* generateCommitMessage has just returned in a run without --detailed
Generated == script = "ollama" /\ pc = "capitalize" /\ ~options.detailed

EndpointHosts == {Null, "ollama.lan", "http://ollama.lan", "http://ollama.lan:8080", "http://"}
EndpointPorts == {Null, "8080"}
EndpointBodies == {GenerateBody("fix bug"), UnparsableBody}

InitEndpoint ==
  InitRun(Scripts, {<<"src/app.js">>}, {""},
          ported(hosted(OptionRecords({FALSE}, {FALSE}, {TRUE}, {Null}), EndpointHosts),
                 EndpointPorts),
          {Null})

NextEndpoint ==
  \/ AnalyzeChanges
  \/ RemoteSteps({200, 500}, RemoteProbeBodies, EndpointBodies)
  \/ Fallback
  \/ Capitalize

SpecEndpoint == InitEndpoint /\ [][NextEndpoint]_vars

\* C30: in one run the generation request goes to the hostname and the port
\* the probe went to, whatever --host and --port are.
C30_SameEndpoint ==
  Len(requests) = 2
  => /\ requests[2].hostname = requests[1].hostname
     /\ requests[2].port = requests[1].port

====
